---- MODULE Spec2Model ----
(***************************************************************************)
(* Model of the storage_blobs crate: the typestate BlobClient<T>, the      *)
(* BaseClient trait helpers, BlobClientOptions and BlobContainerClient.    *)
(*                                                                         *)
(* One caller drives the clients.  call is the record of the operation     *)
(* that ran last: its arguments, the request it built, whether the request *)
(* reached Pipeline::send, and how the operation ended.                    *)
(***************************************************************************)
EXTENDS Integers, Sequences, FiniteSets, TLC

VARIABLES proc, options, client, container, call

vars == <<proc, options, client, container, call>>

(***************************************************************************)
(* Bounds and inputs                                                       *)
(***************************************************************************)
\* Payload lengths run up to MaxPages * PageSize bytes.
MaxPages == 1

\* The instants OffsetDateTime::now_utc() returns to an upload.
Instants == {0, 1}

\* blob_client.rs:192, data_length % 512
PageSize == 512

Accounts == {"acct", "vincenttranstock"}

ContainerNames == {"c1"}

BlobNames == {"b.txt"}

Credentials == {"cred"}

\* Service strings handed to build_url: the four the code lists and two others.
ServiceInputs == {"blob", "queue", "file-share", "dfs", "table", ""}

\* The api_version a caller sets through the builder (the builder test's value).
ApiVersions == {"12345"}

\* b"hello world"
HelloWorld == <<104, 101, 108, 108, 111, 32, 119, 111, 114, 108, 100>>

Bytes(L) == [i \in 1..L |-> (i * 7) % 256]

Lens == {0, 1} \cup {k * PageSize + d : k \in 1..MaxPages, d \in {-1, 0}}

Payloads == {HelloWorld} \cup {Bytes(L) : L \in Lens}

\* blob_type: Option<&str>; <<>> is None, <<s>> is Some(s).
BlobTypes == {<<>>, <<"BlockBlob">>, <<"PageBlob">>, <<"AppendBlob">>, <<"CoolBlob">>}

\* What Pipeline::send resolves to: a response or a transport error.
SendResults == {[tag |-> "Ok", status |-> 201, detail |-> ""],
                [tag |-> "Err", status |-> 0, detail |-> "Io"]}

(***************************************************************************)
(* usize::to_string: the decimal digits of n                               *)
(***************************************************************************)
Digit(d) ==
    CASE d = 0 -> "0" [] d = 1 -> "1" [] d = 2 -> "2" [] d = 3 -> "3"
      [] d = 4 -> "4" [] d = 5 -> "5" [] d = 6 -> "6" [] d = 7 -> "7"
      [] d = 8 -> "8" [] d = 9 -> "9"

RECURSIVE to_string(_)
to_string(n) ==
    IF n < 10 THEN Digit(n) ELSE to_string(n \div 10) \o Digit(n % 10)

\* date::to_rfc1123 of the instant t: one text per instant.
to_rfc1123(t) == "rfc1123@" \o to_string(t)

(***************************************************************************)
(* Request: url, method, header collection, body                           *)
(***************************************************************************)
\* Request::new(url, method): no headers, empty body.
RequestNew(url, method) ==
    [url |-> url, method |-> method, headers |-> <<>>, body |-> <<>>]

\* Request::insert_header: one entry per name, the last write wins.
insert_header(request, name, value) ==
    [request EXCEPT !.headers =
        SelectSeq(request.headers, LAMBDA e : e[1] # name) \o <<<<name, value>>>>]

\* Request::set_body
set_body(request, data) == [request EXCEPT !.body = data]

\* The values stored under a header name.
HeaderValues(request, name) ==
    {request.headers[i][2] : i \in {j \in DOMAIN request.headers : request.headers[j][1] = name}}

\* How many entries carry the header name.
HeaderCount(request, name) ==
    Cardinality({j \in DOMAIN request.headers : request.headers[j][1] = name})

HeaderSet(request) == {request.headers[i] : i \in DOMAIN request.headers}

(***************************************************************************)
(* BaseClient                                                              *)
(***************************************************************************)
Services == {"blob", "queue", "file-share", "dfs"}

\* build_url: the URL text, or the process exits with status 1.
build_url(account_name, service) ==
    IF ~(service \in Services)
    THEN [tag |-> "Exit", status |-> 1, detail |-> "Not a valid service. Exiting."]
    ELSE [tag |-> "Ok", status |-> 0,
          detail |-> "https://" \o account_name \o "." \o service \o ".core.windows.net/"]

\* finalize_request taking the version from the client options instead.
finalize_request_api_version(request) ==
    insert_header(request, "x-ms-version",
                  IF options # <<>> THEN options[1].api_version[1] ELSE "2023-11-03")

finalize_request(request) == insert_header(request, "x-ms-version", "2023-11-03")

build_pipeline(credential) ==
    [credential |-> credential, scope |-> "https://storage.azure.com/.default"]

(***************************************************************************)
(* BlobClientOptions                                                       *)
(***************************************************************************)
\* BlobClientOptions::default()
OptionsDefault == [api_version |-> <<"2023-11-03">>]

\* builder().with_api_version(v).build()
with_api_version(opts, v) == [opts EXCEPT !.api_version = <<v>>]

\* The Option<BlobClientOptions> values a caller passes to BlobClient::new.
OptionInputs == {<<>>} \cup {<<with_api_version(OptionsDefault, v)>> : v \in ApiVersions}

\* options.unwrap_or_default()
unwrap_or_default(opt) == IF opt = <<>> THEN OptionsDefault ELSE opt[1]

(***************************************************************************)
(* BlobClient<T>: construction and the kind transitions                    *)
(***************************************************************************)
Kinds == {"Unset", "Block", "Page", "Append"}

\* build_blob_url
build_blob_url(base_url, container_name, blob_name) ==
    base_url \o container_name \o "/" \o blob_name

\* The struct BlobClient::new fills in, given the base URL build_url returned.
\* Url::parse leaves the text of a URL made of plain names as it is; the names
\* drawn here hold no character it would escape or reject.
BlobClientNew(base_url, account_name, container_name, blob_name, credential) ==
    [account_name |-> account_name,
     credential |-> credential,
     container_name |-> container_name,
     blob_name |-> blob_name,
     url |-> build_blob_url(base_url, container_name, blob_name),
     pipeline |-> build_pipeline(credential),
     state |-> "Unset"]

as_block_blob(self) ==
    [account_name |-> self.account_name,
     credential |-> self.credential,
     container_name |-> self.container_name,
     blob_name |-> self.blob_name,
     url |-> self.url,
     pipeline |-> self.pipeline,
     state |-> "Block"]

as_append_blob(self) ==
    [account_name |-> self.account_name,
     credential |-> self.credential,
     container_name |-> self.container_name,
     blob_name |-> self.blob_name,
     url |-> self.url,
     pipeline |-> self.pipeline,
     state |-> "Append"]

\* as_page_blob with a field copied from the wrong source field.
as_page_blob_wrong_field(self) ==
    [account_name |-> self.account_name,
     credential |-> self.credential,
     container_name |-> self.container_name,
     blob_name |-> self.container_name,
     url |-> self.url,
     pipeline |-> self.pipeline,
     state |-> "Page"]

as_page_blob(self) ==
    [account_name |-> self.account_name,
     credential |-> self.credential,
     container_name |-> self.container_name,
     blob_name |-> self.blob_name,
     url |-> self.url,
     pipeline |-> self.pipeline,
     state |-> "Page"]

(***************************************************************************)
(* BlobContainerClient                                                     *)
(***************************************************************************)
build_container_url(base_url, container_name) ==
    base_url \o container_name \o "/" \o "?restype=container"

ContainerClientNew(base_url, account_name, container_name, credential) ==
    [account_name |-> account_name,
     credential |-> credential,
     container_name |-> container_name,
     url |-> build_container_url(base_url, container_name),
     pipeline |-> build_pipeline(credential)]

(***************************************************************************)
(* How an operation ends                                                   *)
(***************************************************************************)
NoResult == [tag |-> "None", status |-> 0, detail |-> ""]

Panic(msg) == [tag |-> "Panic", status |-> 0, detail |-> msg]

\* What response.into_body().collect() resolves to in download_blob.
CollectResults == {[tag |-> "Ok", status |-> 200, detail |-> "rustaceans"],
                   [tag |-> "Err", status |-> 0, detail |-> "Io"]}

\* The record of an operation: its entry point, the kind of the client it ran
\* on, its arguments, the request as it stood when the operation ended (<<>>
\* when none was created), whether the request was handed to Pipeline::send,
\* what each call of Pipeline::send resolved to, in order, and the value, panic
\* or exit the operation ended in.
NoCall ==
    [op |-> "none", kind |-> "", service |-> "", blob_type |-> <<>>, data |-> <<>>,
     request |-> <<>>, sent |-> FALSE, sends |-> <<>>, ret |-> NoResult]

(***************************************************************************)
(* upload_blob                                                             *)
(***************************************************************************)
\* The PageBlob arm declaring the length it writes as content-length.
PageBlobArm_declared_zero(request, data) ==
    set_body(
        insert_header(
            insert_header(
                insert_header(request, "x-ms-blob-type", "PageBlob"),
                "content-length", "0"),
            "x-ms-blob-content-length", "0"),
        data)

PageBlobArm(request, data) ==
    set_body(
        insert_header(
            insert_header(
                insert_header(request, "x-ms-blob-type", "PageBlob"),
                "content-length", "0"),
            "x-ms-blob-content-length", to_string(Len(data))),
        data)

\* The AppendBlob arm sending the payload as the BlockBlob arm does.
AppendBlobArm_with_body(request, data) ==
    set_body(
        insert_header(insert_header(request, "x-ms-blob-type", "AppendBlob"),
                      "content-length", to_string(Len(data))),
        data)

AppendBlobArm(request, data) ==
    insert_header(insert_header(request, "x-ms-blob-type", "AppendBlob"),
                  "content-length", "0")

\* The BlockBlob arm with the content-length the other two arms write.
BlockBlobArm_zero_length(request, data) ==
    set_body(
        insert_header(insert_header(request, "x-ms-blob-type", "BlockBlob"),
                      "content-length", "0"),
        data)

BlockBlobArm(request, data) ==
    set_body(
        insert_header(insert_header(request, "x-ms-blob-type", "BlockBlob"),
                      "content-length", to_string(Len(data))),
        data)

NoneArm(request, data) ==
    set_body(
        insert_header(insert_header(request, "x-ms-blob-type", "BlockBlob"),
                      "content-length", to_string(Len(data))),
        data)

\* upload_blob on the client self at instant t, the pipeline resolving to resp:
\* the request, whether it was sent, and the outcome.
upload_blob(self, data, blob_type, t, resp) ==
    LET request == RequestNew(self.url, "PUT")
    IN  IF blob_type # <<>> /\ ~(blob_type[1] \in {"PageBlob", "AppendBlob", "BlockBlob"})
        THEN [request |-> <<request>>, sent |-> FALSE, sends |-> <<>>,
              ret |-> Panic("Unknown blob type specified!")]
        ELSE LET matched == CASE blob_type = <<"PageBlob">> -> PageBlobArm(request, data)
                              [] blob_type = <<"AppendBlob">> -> AppendBlobArm(request, data)
                              [] blob_type = <<"BlockBlob">> -> BlockBlobArm(request, data)
                              [] blob_type = <<>> -> NoneArm(request, data)
                 dated == insert_header(matched, "x-ms-date", to_rfc1123(t))
             IN  [request |-> <<finalize_request(dated)>>, sent |-> TRUE,
                  sends |-> <<resp>>, ret |-> resp]

\* The alignment check turning away the empty payload.
page_aligned_nonempty(data_length) == data_length % PageSize = 0 /\ data_length # 0

\* The check at the head of upload_page_blob.
page_aligned(data_length) == data_length % PageSize = 0

upload_block_blob(self, data, t, resp) ==
    upload_blob(self, data, <<"BlockBlob">>, t, resp)

upload_append_blob(self, data, t, resp) ==
    upload_blob(self, data, <<"AppendBlob">>, t, resp)

upload_page_blob(self, data, t, resp) ==
    LET data_length == Len(data)
    IN  IF ~page_aligned(data_length)
        THEN [request |-> <<>>, sent |-> FALSE, sends |-> <<>>,
              ret |-> Panic("Data length is not divisible by 512. Data len:"
                            \o to_string(data_length))]
        ELSE upload_blob(self, data, <<"PageBlob">>, t, resp)

download_blob(self, resp, collected) ==
    LET request == finalize_request(RequestNew(self.url, "GET"))
    IN  [request |-> <<request>>, sent |-> TRUE, sends |-> <<resp>>,
         ret |-> IF resp.tag = "Err" THEN resp ELSE collected]

get_blob_properties(self, resp) ==
    LET request == finalize_request(RequestNew(self.url, "HEAD"))
    IN  [request |-> <<request>>, sent |-> TRUE, sends |-> <<resp>>, ret |-> resp]

\* response.unwrap(): a transport error panics.
get_container_properties(self, resp) ==
    LET request == finalize_request(RequestNew(self.url, "HEAD"))
    IN  [request |-> <<request>>, sent |-> TRUE, sends |-> <<resp>>,
         ret |-> IF resp.tag = "Err"
                 THEN Panic("called Result::unwrap on an Err value: " \o resp.detail)
                 ELSE resp]

(***************************************************************************)
(* State machine                                                           *)
(***************************************************************************)
\* client and container hold at most one value each: <<>> before construction.
Init ==
    /\ proc = "running"
    /\ options = <<>>
    /\ client = <<>>
    /\ container = <<>>
    /\ call = NoCall

\* The operation recorded in call ends with ret: a panic unwinds the caller,
\* process::exit ends the process, any other value goes back to the caller.
Ends(ret) ==
    proc' = CASE ret.tag = "Panic" -> "panicked"
              [] ret.tag = "Exit" -> "exited"
              [] OTHER -> "running"

Record(op, kind, service, blob_type, data, out) ==
    /\ call' = [op |-> op, kind |-> kind, service |-> service, blob_type |-> blob_type,
                data |-> data, request |-> out.request, sent |-> out.sent,
                sends |-> out.sends, ret |-> out.ret]
    /\ Ends(out.ret)

NoRequestOut(ret) == [request |-> <<>>, sent |-> FALSE, sends |-> <<>>, ret |-> ret]

\* BaseClient::build_url called with a service string.
BuildUrl(account_name, service) ==
    /\ proc = "running"
    /\ Record("build_url", "", service, <<>>, <<>>,
              NoRequestOut(build_url(account_name, service)))
    /\ UNCHANGED <<options, client, container>>

\* BlobClient::new
New(account_name, container_name, blob_name, credential, opt) ==
    /\ proc = "running"
    /\ client = <<>>
    /\ LET base == build_url(account_name, "blob")
       IN  IF base.tag = "Exit"
           THEN /\ Record("new", "", "blob", <<>>, <<>>, NoRequestOut(base))
                /\ UNCHANGED <<options, client, container>>
           ELSE /\ client' = <<BlobClientNew(base.detail, account_name, container_name,
                                             blob_name, credential)>>
                /\ options' = <<unwrap_or_default(opt)>>
                /\ Record("new", "Unset", "blob", <<>>, <<>>, NoRequestOut(NoResult))
                /\ UNCHANGED container

\* BlobContainerClient::new
NewContainer(account_name, container_name, credential) ==
    /\ proc = "running"
    /\ container = <<>>
    /\ LET base == build_url(account_name, "blob")
       IN  IF base.tag = "Exit"
           THEN /\ Record("container_new", "", "blob", <<>>, <<>>, NoRequestOut(base))
                /\ UNCHANGED <<options, client, container>>
           ELSE /\ container' = <<ContainerClientNew(base.detail, account_name,
                                                     container_name, credential)>>
                /\ Record("container_new", "", "blob", <<>>, <<>>, NoRequestOut(NoResult))
                /\ UNCHANGED <<options, client>>

\* The three transitions live in impl BlobClient<Unset> and take self by value.
AsBlockBlob ==
    /\ proc = "running"
    /\ client # <<>>
    /\ client[1].state = "Unset"
    /\ client' = <<as_block_blob(client[1])>>
    /\ Record("as_block_blob", "Unset", "", <<>>, <<>>, NoRequestOut(NoResult))
    /\ UNCHANGED <<options, container>>

AsAppendBlob ==
    /\ proc = "running"
    /\ client # <<>>
    /\ client[1].state = "Unset"
    /\ client' = <<as_append_blob(client[1])>>
    /\ Record("as_append_blob", "Unset", "", <<>>, <<>>, NoRequestOut(NoResult))
    /\ UNCHANGED <<options, container>>

AsPageBlob ==
    /\ proc = "running"
    /\ client # <<>>
    /\ client[1].state = "Unset"
    /\ client' = <<as_page_blob(client[1])>>
    /\ Record("as_page_blob", "Unset", "", <<>>, <<>>, NoRequestOut(NoResult))
    /\ UNCHANGED <<options, container>>

\* upload_blob is public on BlobClient<T> for every T.
UploadBlob(data, blob_type, t, resp) ==
    /\ proc = "running"
    /\ client # <<>>
    /\ Record("upload_blob", client[1].state, "", blob_type, data,
              upload_blob(client[1], data, blob_type, t, resp))
    /\ UNCHANGED <<options, client, container>>

UploadBlockBlob(data, t, resp) ==
    /\ proc = "running"
    /\ client # <<>>
    /\ client[1].state = "Block"
    /\ Record("upload_block_blob", client[1].state, "", <<>>, data,
              upload_block_blob(client[1], data, t, resp))
    /\ UNCHANGED <<options, client, container>>

UploadAppendBlob(data, t, resp) ==
    /\ proc = "running"
    /\ client # <<>>
    /\ client[1].state = "Append"
    /\ Record("upload_append_blob", client[1].state, "", <<>>, data,
              upload_append_blob(client[1], data, t, resp))
    /\ UNCHANGED <<options, client, container>>

UploadPageBlob(data, t, resp) ==
    /\ proc = "running"
    /\ client # <<>>
    /\ client[1].state = "Page"
    /\ Record("upload_page_blob", client[1].state, "", <<>>, data,
              upload_page_blob(client[1], data, t, resp))
    /\ UNCHANGED <<options, client, container>>

DownloadBlob(resp, collected) ==
    /\ proc = "running"
    /\ client # <<>>
    /\ Record("download_blob", client[1].state, "", <<>>, <<>>,
              download_blob(client[1], resp, collected))
    /\ UNCHANGED <<options, client, container>>

GetBlobProperties(resp) ==
    /\ proc = "running"
    /\ client # <<>>
    /\ Record("get_blob_properties", client[1].state, "", <<>>, <<>>,
              get_blob_properties(client[1], resp))
    /\ UNCHANGED <<options, client, container>>

GetContainerProperties(resp) ==
    /\ proc = "running"
    /\ container # <<>>
    /\ Record("get_container_properties", "", "", <<>>, <<>>,
              get_container_properties(container[1], resp))
    /\ UNCHANGED <<options, client, container>>

Next ==
    \/ \E a \in Accounts, s \in ServiceInputs : BuildUrl(a, s)
    \/ \E a \in Accounts, c \in ContainerNames, b \in BlobNames, cred \in Credentials,
          opt \in OptionInputs : New(a, c, b, cred, opt)
    \/ \E a \in Accounts, c \in ContainerNames, cred \in Credentials : NewContainer(a, c, cred)
    \/ AsBlockBlob
    \/ AsAppendBlob
    \/ AsPageBlob
    \/ \E data \in Payloads, bt \in BlobTypes, t \in Instants, resp \in SendResults :
          UploadBlob(data, bt, t, resp)
    \/ \E data \in Payloads, t \in Instants, resp \in SendResults :
          UploadBlockBlob(data, t, resp)
    \/ \E data \in Payloads, t \in Instants, resp \in SendResults :
          UploadAppendBlob(data, t, resp)
    \/ \E data \in Payloads, t \in Instants, resp \in SendResults :
          UploadPageBlob(data, t, resp)
    \/ \E resp \in SendResults, collected \in CollectResults : DownloadBlob(resp, collected)
    \/ \E resp \in SendResults : GetBlobProperties(resp)
    \/ \E resp \in SendResults : GetContainerProperties(resp)

Spec == Init /\ [][Next]_vars

(***************************************************************************)
(* Properties                                                              *)
(***************************************************************************)
UploadOps == {"upload_blob", "upload_block_blob", "upload_append_blob", "upload_page_blob"}

ConcreteKinds == {"Block", "Page", "Append"}

KindMarker(kind) ==
    CASE kind = "Block" -> "BlockBlob"
      [] kind = "Page" -> "PageBlob"
      [] kind = "Append" -> "AppendBlob"

IsBlockUpload(c) ==
    \/ c.op = "upload_block_blob"
    \/ c.op = "upload_blob" /\ c.blob_type \in {<<>>, <<"BlockBlob">>}

IsPageUpload(c) ==
    \/ c.op = "upload_page_blob"
    \/ c.op = "upload_blob" /\ c.blob_type = <<"PageBlob">>

IsAppendUpload(c) ==
    \/ c.op = "upload_append_blob"
    \/ c.op = "upload_blob" /\ c.blob_type = <<"AppendBlob">>

\* C1: an upload builds or sends a request only from a client fixed at a
\* concrete kind, and the request's kind marker is that kind's marker.
C1_UploadOnlyOnFixedKind ==
    (call.op \in UploadOps /\ call.request # <<>>) =>
        /\ call.kind \in ConcreteKinds
        /\ call.sent => HeaderValues(call.request[1], "x-ms-blob-type") = {KindMarker(call.kind)}

SameIdentity(a, b) ==
    /\ a.account_name = b.account_name
    /\ a.container_name = b.container_name
    /\ a.blob_name = b.blob_name
    /\ a.url = b.url
    /\ a.pipeline = b.pipeline
    /\ a.credential = b.credential

\* C2: the kind moves only from Unset to one concrete kind, through one of the
\* three as_* functions; a concrete kind never changes; no step changes the
\* account, container, blob name, URL or pipeline of the client.
C2_KindOneWay ==
    [][client # <<>> =>
         /\ client' # <<>>
         /\ SameIdentity(client[1], client'[1])
         /\ client[1].state \in ConcreteKinds => client'[1].state = client[1].state
         /\ client'[1].state # client[1].state =>
               /\ client[1].state = "Unset"
               /\ client'[1].state \in ConcreteKinds
               /\ call'.op \in {"as_block_blob", "as_page_blob", "as_append_blob"}]_vars

C2_Witness ==
    /\ client # <<>>
    /\ client[1].state = "Page"
    /\ call.op = "get_blob_properties"
    /\ call.kind = "Page"

\* C3: upload_page_blob goes on to build its request exactly when the payload
\* length is a multiple of 512; lengths 0 and 512 pass and 511 does not.
C3_PageValidation ==
    call.op = "upload_page_blob" =>
        /\ (call.request # <<>>) <=> (Len(call.data) % 512 = 0)
        /\ Len(call.data) \in {0, 512} => call.sent
        /\ Len(call.data) = 511 => ~call.sent /\ call.request = <<>>

C3_Witness ==
    /\ call.op = "upload_page_blob"
    /\ Len(call.data) = 512
    /\ call.sent

\* C4: an upload of kind Page whose payload length is not a multiple of 512
\* produces no request and sends nothing.
C4_NoSendOfMisalignedPage ==
    (IsPageUpload(call) /\ Len(call.data) % 512 # 0) =>
        /\ call.request = <<>>
        /\ ~call.sent

\* C5: a misaligned Page upload returns the error InvalidPayloadAlignment(L)
\* to the caller as a value, and the caller keeps running.
C5_MisalignedIsRecoverable ==
    (call.op = "upload_page_blob" /\ Len(call.data) % 512 # 0) =>
        /\ call.ret.tag = "Err"
        /\ call.ret.detail = "InvalidPayloadAlignment(" \o to_string(Len(call.data)) \o ")"
        /\ proc = "running"

\* C6: build_url returns https://{account}.{service}.core.windows.net/ for the
\* services blob, queue, file-share and dfs, and for any other service returns
\* a ConfigurationError to the caller, who keeps running; no request is built.
C6_BuildUrlReportsError ==
    call.op = "build_url" =>
        /\ call.request = <<>>
        /\ IF call.service \in {"blob", "queue", "file-share", "dfs"}
           THEN /\ call.ret.tag = "Ok"
                /\ \E a \in Accounts :
                      call.ret.detail = "https://" \o a \o "." \o call.service \o ".core.windows.net/"
           ELSE /\ call.ret.tag = "Err"
                /\ call.ret.detail = "ConfigurationError"
                /\ proc = "running"

\* C7: a Block upload sends a PUT to
\* https://{account}.blob.core.windows.net/{container}/{blob} with kind marker
\* BlockBlob, content-length equal to the payload length, and the payload as body.
C7_BlockDescriptor ==
    IsBlockUpload(call) =>
        /\ call.sent
        /\ LET r == call.request[1]
               c == client[1]
           IN  /\ r.method = "PUT"
               /\ r.url = "https://" \o c.account_name \o ".blob.core.windows.net/"
                             \o c.container_name \o "/" \o c.blob_name
               /\ (c.account_name = "acct" /\ c.container_name = "c1" /\ c.blob_name = "b.txt")
                     => r.url = "https://acct.blob.core.windows.net/c1/b.txt"
               /\ HeaderValues(r, "x-ms-blob-type") = {"BlockBlob"}
               /\ HeaderValues(r, "content-length") = {to_string(Len(call.data))}
               /\ Len(call.data) = 0 => HeaderValues(r, "content-length") = {"0"}
               /\ Len(call.data) = 1 => HeaderValues(r, "content-length") = {"1"}
               /\ Len(call.data) = 11 => HeaderValues(r, "content-length") = {"11"}
               /\ Len(call.data) = 512 => HeaderValues(r, "content-length") = {"512"}
               /\ r.body = call.data

C7_Witness ==
    /\ call.op = "upload_block_blob"
    /\ call.data = HelloWorld
    /\ call.sent
    /\ call.request[1].body = HelloWorld

\* The headers of a request other than the timestamp.
UndatedHeaders(r) == {h \in HeaderSet(r) : h[1] # "x-ms-date"}

SameApartFromDate(r1, r2) ==
    /\ r1.url = r2.url
    /\ r1.method = r2.method
    /\ r1.body = r2.body
    /\ UndatedHeaders(r1) = UndatedHeaders(r2)

\* C8: an Append upload sends kind marker AppendBlob, content-length 0 and an
\* empty body whatever its payload, and two Append uploads in a row on the same
\* client send requests that differ in the timestamp header at most.
C8_AppendIgnoresPayload ==
    [][IsAppendUpload(call') =>
         /\ call'.sent
         /\ HeaderValues(call'.request[1], "x-ms-blob-type") = {"AppendBlob"}
         /\ HeaderValues(call'.request[1], "content-length") = {"0"}
         /\ call'.request[1].body = <<>>
         /\ (IsAppendUpload(call) /\ client' = client) =>
               SameApartFromDate(call.request[1], call'.request[1])]_vars

C8_Witness ==
    /\ call.op = "upload_append_blob"
    /\ Len(call.data) > 0
    /\ call.sent
    /\ call.request[1].body = <<>>
    /\ HeaderValues(call.request[1], "content-length") = {"0"}

\* C9: every request handed to the pipeline carries x-ms-version exactly once,
\* with the value 2023-11-03, whatever api_version the options carry.
C9_VersionHeader ==
    call.sent =>
        /\ HeaderCount(call.request[1], "x-ms-version") = 1
        /\ HeaderValues(call.request[1], "x-ms-version") = {"2023-11-03"}

C9_Witness ==
    /\ options # <<>>
    /\ options[1].api_version = <<"12345">>
    /\ call.op = "download_blob"
    /\ call.sent
    /\ HeaderCount(call.request[1], "x-ms-version") = 1

\* C10: the content-length header of every upload request sent equals the
\* number of bytes in the request's body.
C10_ContentLengthIsBodyLength ==
    (call.op \in UploadOps /\ call.sent) =>
        HeaderValues(call.request[1], "content-length") = {to_string(Len(call.request[1].body))}

\* C11: a Page upload whose payload length L is a multiple of 512 sends a PUT
\* to the client's URL with kind marker PageBlob, the whole payload as body,
\* and L in the x-ms-blob-content-length header.
C11_PageDescriptor ==
    (IsPageUpload(call) /\ Len(call.data) % 512 = 0) =>
        /\ call.sent
        /\ LET r == call.request[1]
               c == client[1]
           IN  /\ r.method = "PUT"
               /\ r.url = "https://" \o c.account_name \o ".blob.core.windows.net/"
                             \o c.container_name \o "/" \o c.blob_name
               /\ HeaderValues(r, "x-ms-blob-type") = {"PageBlob"}
               /\ r.body = call.data
               /\ HeaderValues(r, "x-ms-blob-content-length") = {to_string(Len(call.data))}
               /\ Len(call.data) = 0 => HeaderValues(r, "x-ms-blob-content-length") = {"0"}
               /\ Len(call.data) = 512 => HeaderValues(r, "x-ms-blob-content-length") = {"512"}
               /\ Len(call.data) = 1024 => HeaderValues(r, "x-ms-blob-content-length") = {"1024"}

C11_Witness ==
    /\ call.op = "upload_page_blob"
    /\ Len(call.data) = 512
    /\ call.sent
    /\ Len(call.request[1].body) = 512
    /\ HeaderValues(call.request[1], "x-ms-blob-content-length") = {"512"}

\* The operations that hand a request to the pipeline.
SendingOps ==
    {"download_blob", "get_blob_properties", "get_container_properties",
     "upload_blob", "upload_block_blob", "upload_append_blob", "upload_page_blob"}

\* C12: an operation that reaches the pipeline calls send exactly once; when
\* send resolves to a transport error the operation returns that same error to
\* the caller, who keeps running; and no operation changes a field of the
\* client it runs on.
C12_SendOnceErrorPassedThrough ==
    [][(call'.op \in SendingOps /\ call'.sent) =>
         /\ Len(call'.sends) = 1
         /\ call'.sends[1].tag = "Err" =>
               /\ call'.ret = call'.sends[1]
               /\ proc' = "running"
         /\ client' = client
         /\ container' = container]_vars

====
